---- MODULE Spec2Model ----
(***************************************************************************)
(* Model of meta-tags-writer (src/src/meta-tags-writer.cjs, first module,  *)
(* lines 1-186): the global Config object, the four tag writers            *)
(* PageMetaTags, SEOMetaTags, OpenGraphMetaTags and TwitterMetaTags, and   *)
(* the aggregator CommonMetaTags that owns one of each; and of the         *)
(* metatag-writer variant (src/src/metatag-writer.js): GlobalConfig, the   *)
(* four writers and the aggregator CommonMetaWriter.                       *)
(*                                                                         *)
(* Representation of JavaScript values.                                    *)
(*  - A field holds `undefined` or a string.  `undefined` is the empty     *)
(*    tuple <<>> and the string s is the one-element tuple <<s>>.          *)
(*  - A returned string is the sequence of its pieces: every template      *)
(*    literal pushed by a writer is one piece (the TLA+ string of its      *)
(*    text), the separator "\n" is one piece, and the empty string is the  *)
(*    empty sequence.  String concatenation is \o on these sequences.      *)
(***************************************************************************)
EXTENDS Naturals, Sequences, FiniteSets

VARIABLES Config, meta, nCalls, reversedSet, atConstruction, out

vars == <<Config, meta, nCalls, reversedSet, atConstruction, out>>

----------------------------------------------------------------------------
(* Bounds *)

\* Number of mutating calls the caller makes after a construction: field
\* assignments, fan-out setter calls and assignments to the global flag.
MaxCalls == 2

----------------------------------------------------------------------------
(* JavaScript values *)

Undefined == <<>>

Str(s) == <<s>>

\* Strings a caller assigns to a field or passes to a fan-out setter.
Strings == {"", "X"}

\* What a caller can store in an optional string field.
FieldValues == {Undefined} \cup {Str(s) : s \in Strings}

\* JavaScript truthiness of a field value, as tested by `if (this.f)`:
\* undefined and the empty string are falsy, any other string is truthy.
Truthy(v) == v # Undefined /\ v[1] # ""

NL == "\n"

\* Array.prototype.join(sep) on an array of strings; sep is "\n" (<<NL>>)
\* or "" (<<>>).  The separator goes between consecutive elements only.
RECURSIVE Join(_, _)
\* Mutant of Join: the separator written after every element, the last one
\* included.
Join_Trailing(arr, sep) ==
    IF Len(arr) = 0 THEN <<>>
    ELSE arr[1] \o sep \o Join(Tail(arr), sep)

Join(arr, sep) ==
    IF Len(arr) = 0 THEN <<>>
    ELSE IF Len(arr) = 1 THEN arr[1]
    ELSE arr[1] \o sep \o Join(Tail(arr), sep)

\* Mutant of Separator: the branches of the conditional swapped.
Separator_Inverted(flag) == IF flag THEN <<>> ELSE <<NL>>

\* The conditional expression `flag ? "\n" : ""`.
Separator(flag) == IF flag THEN <<NL>> ELSE <<>>

\* Mutant of PushIf: the test `value !== undefined` in place of truthiness.
PushIf_Defined(tags, value, line) ==
    IF value # Undefined THEN Append(tags, <<line>>) ELSE tags

\* `if (value) tags.push(line)`: the array the statement leaves behind.
PushIf(tags, value, line) == IF Truthy(value) THEN Append(tags, <<line>>) ELSE tags

----------------------------------------------------------------------------
(* The tag templates *)

TitleTag(v) == "<title>" \o v[1] \o "</title>"

MetaName(name, v) ==
    "<meta name=\"" \o name \o "\" content=\"" \o v[1] \o "\">"

MetaProperty(property, v) ==
    "<meta property=\"" \o property \o "\" content=\"" \o v[1] \o "\">"

CanonicalTag(v) == "<link rel=\"canonical\" href=\"" \o v[1] \o "\">"

CharsetTag(v) == "<meta charset=\"" \o v[1] \o "\">"

----------------------------------------------------------------------------
(* The four writers *)

\* new SEOMetaTags()
NewSEOMetaTags(cfg) ==
    [ useNewLineBetweenEntries |-> cfg.useNewLineBetweenEntries,
      title       |-> Undefined,
      description |-> Undefined,
      keywords    |-> Undefined,
      robots      |-> Undefined,
      googlebot   |-> Undefined,
      bingbot     |-> Undefined,
      canonical   |-> Undefined ]

\* The tags array of SEOMetaTags.write() before the join.
SeoTags(this) ==
    LET t1 == PushIf(<<>>, this.title, TitleTag(this.title))
        t2 == PushIf(t1, this.description, MetaName("description", this.description))
        t3 == PushIf(t2, this.keywords, MetaName("keywords", this.keywords))
        t4 == PushIf(t3, this.robots, MetaName("robots", this.robots))
        t5 == PushIf(t4, this.googlebot, MetaName("googlebot", this.googlebot))
        t6 == PushIf(t5, this.bingbot, MetaName("bingbot", this.bingbot))
    IN  PushIf(t6, this.canonical, CanonicalTag(this.canonical))

\* SEOMetaTags.write()
SeoWrite(this) == Join(SeoTags(this), Separator(this.useNewLineBetweenEntries))

\* Mutant of NewOpenGraphMetaTags: the type field left undefined like the
\* other fields.
NewOpenGraphMetaTags_NoType(cfg) ==
    [ useNewLineBetweenEntries |-> cfg.useNewLineBetweenEntries,
      title       |-> Undefined,
      description |-> Undefined,
      image       |-> Undefined,
      url         |-> Undefined,
      type        |-> Undefined,
      siteName    |-> Undefined ]

\* new OpenGraphMetaTags()
NewOpenGraphMetaTags(cfg) ==
    [ useNewLineBetweenEntries |-> cfg.useNewLineBetweenEntries,
      title       |-> Undefined,
      description |-> Undefined,
      image       |-> Undefined,
      url         |-> Undefined,
      type        |-> Str("website"),
      siteName    |-> Undefined ]

\* The tags array of OpenGraphMetaTags.write() before the join.
OgTags(this) ==
    LET t1 == PushIf(<<>>, this.title, MetaProperty("og:title", this.title))
        t2 == PushIf(t1, this.description, MetaProperty("og:description", this.description))
        t3 == PushIf(t2, this.image, MetaProperty("og:image", this.image))
        t4 == PushIf(t3, this.url, MetaProperty("og:url", this.url))
        t5 == PushIf(t4, this.type, MetaProperty("og:type", this.type))
    IN  PushIf(t5, this.siteName, MetaProperty("og:site_name", this.siteName))

\* OpenGraphMetaTags.write()
OgWrite(this) == Join(OgTags(this), Separator(this.useNewLineBetweenEntries))

\* new TwitterMetaTags()
NewTwitterMetaTags(cfg) ==
    [ useNewLineBetweenEntries |-> cfg.useNewLineBetweenEntries,
      title       |-> Undefined,
      description |-> Undefined,
      image       |-> Undefined,
      card        |-> Str("summary_large_image"),
      creator     |-> Undefined,
      site        |-> Undefined ]

\* Mutant of TwitterTags: the card line pushed after the image line.
TwitterTags_CardLast(this) ==
    LET t1 == PushIf(<<>>, this.title, MetaName("twitter:title", this.title))
        t2 == PushIf(t1, this.description, MetaName("twitter:description", this.description))
        t3 == PushIf(t2, this.image, MetaName("twitter:image", this.image))
        t4 == PushIf(t3, this.card, MetaName("twitter:card", this.card))
        t5 == PushIf(t4, this.creator, MetaName("twitter:creator", this.creator))
    IN  PushIf(t5, this.site, MetaName("twitter:site", this.site))

\* The tags array of TwitterMetaTags.write() before the join.
TwitterTags(this) ==
    LET t1 == PushIf(<<>>, this.card, MetaName("twitter:card", this.card))
        t2 == PushIf(t1, this.title, MetaName("twitter:title", this.title))
        t3 == PushIf(t2, this.description, MetaName("twitter:description", this.description))
        t4 == PushIf(t3, this.image, MetaName("twitter:image", this.image))
        t5 == PushIf(t4, this.creator, MetaName("twitter:creator", this.creator))
    IN  PushIf(t5, this.site, MetaName("twitter:site", this.site))

\* TwitterMetaTags.write()
TwitterWrite(this) == Join(TwitterTags(this), Separator(this.useNewLineBetweenEntries))

\* new PageMetaTags()
NewPageMetaTags(cfg) ==
    [ useNewLineBetweenEntries |-> cfg.useNewLineBetweenEntries,
      charset    |-> Str("UTF-8"),
      viewport   |-> Str("width=device-width, initial-scale=1.0"),
      themeColor |-> Undefined ]

\* Mutant of PageTags: the theme-color line pushed without its guard, so an
\* undefined themeColor is interpolated as the text "undefined".
PageTags_NoGuard(this) ==
    LET t1 == PushIf(<<>>, this.charset, CharsetTag(this.charset))
        t2 == PushIf(t1, this.viewport, MetaName("viewport", this.viewport))
        tc == IF this.themeColor = Undefined THEN Str("undefined") ELSE this.themeColor
    IN  Append(t2, <<MetaName("theme-color", tc)>>)

\* The tags array of PageMetaTags.write() before the join.
PageTags(this) ==
    LET t1 == PushIf(<<>>, this.charset, CharsetTag(this.charset))
        t2 == PushIf(t1, this.viewport, MetaName("viewport", this.viewport))
    IN  PushIf(t2, this.themeColor, MetaName("theme-color", this.themeColor))

\* Mutant of PageWrite: the global flag read at serialize time.
PageWrite_Live(this) == Join(PageTags(this), Separator(Config.useNewLineBetweenEntries))

\* PageMetaTags.write()
PageWrite(this) == Join(PageTags(this), Separator(this.useNewLineBetweenEntries))

----------------------------------------------------------------------------
(* The aggregator *)

\* new CommonMetaTags()
NewCommonMetaTags(cfg) ==
    [ useNewLineBetweenEntries |-> cfg.useNewLineBetweenEntries,
      page    |-> NewPageMetaTags(cfg),
      seo     |-> NewSEOMetaTags(cfg),
      og      |-> NewOpenGraphMetaTags(cfg),
      twitter |-> NewTwitterMetaTags(cfg) ]

\* The argument of CommonMetaTags.write: omitted, or an object whose newLine
\* key is true or false.
WriteArgs == {"omitted", "true", "false"}

\* Mutant of OptionsNewLine: the default argument {newLine:true}.
OptionsNewLine_DefaultTrue(arg) == IF arg = "omitted" THEN TRUE ELSE arg = "true"

\* `options = {newLine:false}` followed by `options.newLine`.
OptionsNewLine(arg) == IF arg = "omitted" THEN FALSE ELSE arg = "true"

\* Mutant of CommonWrite: empty blocks filtered out before the join.
CommonWrite_SkipEmpty(this, arg) ==
    Join(SelectSeq(<< PageWrite(this.page),
                      SeoWrite(this.seo),
                      OgWrite(this.og),
                      TwitterWrite(this.twitter) >>,
                   LAMBDA block : block # <<>>),
         Separator(OptionsNewLine(arg)))

\* Mutant of CommonWrite: the blocks joined by the aggregator's own newline
\* flag, the options argument ignored.
CommonWrite_PolicyJoin(this, arg) ==
    Join(<< PageWrite(this.page),
            SeoWrite(this.seo),
            OgWrite(this.og),
            TwitterWrite(this.twitter) >>,
         Separator(this.useNewLineBetweenEntries))

\* Mutant of CommonWrite: the SEO block placed before the page block.
CommonWrite_SeoFirst(this, arg) ==
    Join(<< SeoWrite(this.seo),
            PageWrite(this.page),
            OgWrite(this.og),
            TwitterWrite(this.twitter) >>,
         Separator(OptionsNewLine(arg)))

\* CommonMetaTags.write(options)
CommonWrite(this, arg) ==
    Join(<< PageWrite(this.page),
            SeoWrite(this.seo),
            OgWrite(this.og),
            TwitterWrite(this.twitter) >>,
         Separator(OptionsNewLine(arg)))

\* Mutant of TitleForAll: the Twitter assignment left out.
TitleForAll_NoTwitter(this, title) ==
    [this EXCEPT !.seo.title = title, !.og.title = title]

\* The aggregator after setTitleForAll(title).
TitleForAll(this, title) ==
    [this EXCEPT !.seo.title = title, !.og.title = title, !.twitter.title = title]

\* Mutant of DescriptionForAll: the Open Graph assignment lands on og.type.
DescriptionForAll_IntoType(this, description) ==
    [this EXCEPT !.seo.description = description,
                 !.og.type = description,
                 !.twitter.description = description]

\* The aggregator after setDescriptionForAll(description).
DescriptionForAll(this, description) ==
    [this EXCEPT !.seo.description = description,
                 !.og.description = description,
                 !.twitter.description = description]

\* Mutant of ImageForAll: the Open Graph url overwritten as well.
ImageForAll_AlsoUrl(this, imageUrl) ==
    [this EXCEPT !.og.image = imageUrl, !.og.url = imageUrl,
                 !.twitter.image = imageUrl]

\* The aggregator after setImageForAll(imageUrl).
ImageForAll(this, imageUrl) ==
    [this EXCEPT !.og.image = imageUrl, !.twitter.image = imageUrl]

----------------------------------------------------------------------------
(* State machine *)

Components == {"page", "seo", "og", "twitter"}

\* The string fields of each writer, in the order write() tests them.
FieldOrder(c) ==
    CASE c = "page"    -> <<"charset", "viewport", "themeColor">>
      [] c = "seo"     -> <<"title", "description", "keywords", "robots",
                            "googlebot", "bingbot", "canonical">>
      [] c = "og"      -> <<"title", "description", "image", "url", "type", "siteName">>
      [] c = "twitter" -> <<"card", "title", "description", "image", "creator", "site">>

Fields(c) == {FieldOrder(c)[i] : i \in 1..Len(FieldOrder(c))}

\* Position of field f in the order write() of writer c tests the fields.
Rank(c, f) == CHOOSE i \in 1..Len(FieldOrder(c)) : FieldOrder(c)[i] = f

\* Two history variables serve the properties only.
\*  - reversedSet: whether the last mutating call assigned a truthy value to a
\*    field that write() tests before another field of the same writer that
\*    already held a truthy value (the two fields were set in the reverse of
\*    the emission order).
\*  - atConstruction: the value Config.useNewLineBetweenEntries had when the
\*    constructor of the current instance ran.
Reversed(c, f) ==
    \E g \in Fields(c) : Rank(c, f) < Rank(c, g) /\ Truthy(meta[c][g])

NoOut == [call |-> "none", arg |-> "none", ret |-> <<>>]

\* Module load followed by `new CommonMetaTags()`.
Init ==
    /\ Config = [useNewLineBetweenEntries |-> TRUE]
    /\ meta = NewCommonMetaTags(Config)
    /\ nCalls = 0
    /\ reversedSet = FALSE
    /\ atConstruction = Config.useNewLineBetweenEntries
    /\ out = NoOut

\* Config.useNewLineBetweenEntries = b
SetConfig(b) ==
    /\ nCalls < MaxCalls
    /\ Config' = [Config EXCEPT !.useNewLineBetweenEntries = b]
    /\ nCalls' = nCalls + 1
    /\ reversedSet' = FALSE
    /\ out' = NoOut
    /\ UNCHANGED <<meta, atConstruction>>

\* meta = new CommonMetaTags()
Construct ==
    /\ meta' = NewCommonMetaTags(Config)
    /\ nCalls' = 0
    /\ reversedSet' = FALSE
    /\ atConstruction' = Config.useNewLineBetweenEntries
    /\ out' = NoOut
    /\ UNCHANGED Config

\* meta.<c>.<f> = v
SetField(c, f, v) ==
    /\ nCalls < MaxCalls
    /\ meta' = [meta EXCEPT ![c][f] = v]
    /\ nCalls' = nCalls + 1
    /\ reversedSet' = (Truthy(v) /\ Reversed(c, f))
    /\ out' = NoOut
    /\ UNCHANGED <<Config, atConstruction>>

\* meta.setTitleForAll(s)
SetTitleForAll(s) ==
    /\ nCalls < MaxCalls
    /\ meta' = TitleForAll(meta, Str(s))
    /\ nCalls' = nCalls + 1
    /\ reversedSet' = FALSE
    /\ out' = NoOut
    /\ UNCHANGED <<Config, atConstruction>>

\* meta.setDescriptionForAll(s)
SetDescriptionForAll(s) ==
    /\ nCalls < MaxCalls
    /\ meta' = DescriptionForAll(meta, Str(s))
    /\ nCalls' = nCalls + 1
    /\ reversedSet' = FALSE
    /\ out' = NoOut
    /\ UNCHANGED <<Config, atConstruction>>

\* meta.setImageForAll(s)
SetImageForAll(s) ==
    /\ nCalls < MaxCalls
    /\ meta' = ImageForAll(meta, Str(s))
    /\ nCalls' = nCalls + 1
    /\ reversedSet' = FALSE
    /\ out' = NoOut
    /\ UNCHANGED <<Config, atConstruction>>

\* meta.page.write()
WritePage ==
    /\ out' = [call |-> "page", arg |-> "none", ret |-> PageWrite(meta.page)]
    /\ UNCHANGED <<Config, meta, nCalls, reversedSet, atConstruction>>

\* meta.seo.write()
WriteSeo ==
    /\ out' = [call |-> "seo", arg |-> "none", ret |-> SeoWrite(meta.seo)]
    /\ UNCHANGED <<Config, meta, nCalls, reversedSet, atConstruction>>

\* Mutant of WriteOg: write() stores the default type back when it is unset.
WriteOg_Normalising ==
    /\ out' = [call |-> "og", arg |-> "none", ret |-> OgWrite(meta.og)]
    /\ meta' = IF Truthy(meta.og.type) THEN meta
               ELSE [meta EXCEPT !.og.type = Str("website")]
    /\ UNCHANGED <<Config, nCalls, reversedSet, atConstruction>>

\* meta.og.write()
WriteOg ==
    /\ out' = [call |-> "og", arg |-> "none", ret |-> OgWrite(meta.og)]
    /\ UNCHANGED <<Config, meta, nCalls, reversedSet, atConstruction>>

\* meta.twitter.write()
WriteTwitter ==
    /\ out' = [call |-> "twitter", arg |-> "none", ret |-> TwitterWrite(meta.twitter)]
    /\ UNCHANGED <<Config, meta, nCalls, reversedSet, atConstruction>>

\* meta.write(options)
WriteAll(arg) ==
    /\ out' = [call |-> "all", arg |-> arg, ret |-> CommonWrite(meta, arg)]
    /\ UNCHANGED <<Config, meta, nCalls, reversedSet, atConstruction>>

Next ==
    \/ \E b \in BOOLEAN : SetConfig(b)
    \/ Construct
    \/ \E c \in Components : \E f \in Fields(c) : \E v \in FieldValues : SetField(c, f, v)
    \/ \E s \in Strings : SetTitleForAll(s)
    \/ \E s \in Strings : SetDescriptionForAll(s)
    \/ \E s \in Strings : SetImageForAll(s)
    \/ WritePage
    \/ WriteSeo
    \/ WriteOg
    \/ WriteTwitter
    \/ \E arg \in WriteArgs : WriteAll(arg)

Spec == Init /\ [][Next]_vars

----------------------------------------------------------------------------
(* The aggregator driven through its own methods only *)

\* Number of fan-out setter calls the caller makes after the construction.
MaxFanOutCalls == 3

\* Strings a caller passes to the fan-out setters.
FanOutStrings == {"", "X", "Y"}

\* Module load, an optional assignment to Config.useNewLineBetweenEntries,
\* then `new CommonMetaTags()`.
InitFanOut ==
    /\ Config \in {[useNewLineBetweenEntries |-> b] : b \in BOOLEAN}
    /\ meta = NewCommonMetaTags(Config)
    /\ nCalls = 0
    /\ reversedSet = FALSE
    /\ atConstruction = Config.useNewLineBetweenEntries
    /\ out = NoOut

\* meta.setTitleForAll(s)
FanOutSetTitleForAll(s) ==
    /\ nCalls < MaxFanOutCalls
    /\ meta' = TitleForAll(meta, Str(s))
    /\ nCalls' = nCalls + 1
    /\ reversedSet' = FALSE
    /\ out' = NoOut
    /\ UNCHANGED <<Config, atConstruction>>

\* meta.setDescriptionForAll(s)
FanOutSetDescriptionForAll(s) ==
    /\ nCalls < MaxFanOutCalls
    /\ meta' = DescriptionForAll(meta, Str(s))
    /\ nCalls' = nCalls + 1
    /\ reversedSet' = FALSE
    /\ out' = NoOut
    /\ UNCHANGED <<Config, atConstruction>>

\* meta.setImageForAll(s)
FanOutSetImageForAll(s) ==
    /\ nCalls < MaxFanOutCalls
    /\ meta' = ImageForAll(meta, Str(s))
    /\ nCalls' = nCalls + 1
    /\ reversedSet' = FALSE
    /\ out' = NoOut
    /\ UNCHANGED <<Config, atConstruction>>

\* Only the three fan-out setters and write(options) are called.
NextFanOut ==
    \/ \E s \in FanOutStrings : FanOutSetTitleForAll(s)
    \/ \E s \in FanOutStrings : FanOutSetDescriptionForAll(s)
    \/ \E s \in FanOutStrings : FanOutSetImageForAll(s)
    \/ \E arg \in WriteArgs : WriteAll(arg)

SpecFanOut == InitFanOut /\ [][NextFanOut]_vars

----------------------------------------------------------------------------
(* The defaults reassigned *)

\* Number of assignments the caller makes after the construction.
MaxAssignments == 4

\* The fields the constructors initialise with a string; every other field
\* is undefined after construction.
DefaultFields ==
    { <<"page", "charset">>, <<"page", "viewport">>,
      <<"og", "type">>, <<"twitter", "card">> }

\* meta.<c>.<f> = v, for a field the constructor gave a default.
AssignDefaultField(c, f, v) ==
    /\ nCalls < MaxAssignments
    /\ meta' = [meta EXCEPT ![c][f] = v]
    /\ nCalls' = nCalls + 1
    /\ reversedSet' = (Truthy(v) /\ Reversed(c, f))
    /\ out' = NoOut
    /\ UNCHANGED <<Config, atConstruction>>

\* The caller reassigns (or clears) the defaults and serializes.
NextDefaults ==
    \/ \E d \in DefaultFields : \E v \in FieldValues :
           AssignDefaultField(d[1], d[2], v)
    \/ WritePage
    \/ WriteSeo
    \/ WriteOg
    \/ WriteTwitter
    \/ \E arg \in WriteArgs : WriteAll(arg)

SpecDefaults == InitFanOut /\ [][NextDefaults]_vars

----------------------------------------------------------------------------
(* The metatag-writer variant (src/src/metatag-writer.js): GlobalConfig, the
   four writers and the aggregator CommonMetaWriter.  In the specification
   of this variant the variable Config holds GlobalConfig and the variable
   meta the CommonMetaWriter instance. *)

\* new SEOMetaWriter()
NewSEOMetaWriter(cfg) ==
    [ useNewLineBetweenEntries |-> cfg.useNewLineBetweenEntries,
      title       |-> Undefined,
      description |-> Undefined,
      keywords    |-> Undefined,
      robots      |-> Undefined,
      googlebot   |-> Undefined,
      bingbot     |-> Undefined,
      canonical   |-> Undefined ]

\* SEOMetaWriter.writeTags()
SEOWriteTags(this) ==
    LET t1 == PushIf(<<>>, this.title, TitleTag(this.title))
        t2 == PushIf(t1, this.description, MetaName("description", this.description))
        t3 == PushIf(t2, this.keywords, MetaName("keywords", this.keywords))
        t4 == PushIf(t3, this.robots, MetaName("robots", this.robots))
        t5 == PushIf(t4, this.googlebot, MetaName("googlebot", this.googlebot))
        t6 == PushIf(t5, this.bingbot, MetaName("bingbot", this.bingbot))
        t7 == PushIf(t6, this.canonical, CanonicalTag(this.canonical))
    IN  Join(t7, Separator(this.useNewLineBetweenEntries))

\* new OpenGraphMetaWriter()
NewOpenGraphMetaWriter(cfg) ==
    [ useNewLineBetweenEntries |-> cfg.useNewLineBetweenEntries,
      ogTitle       |-> Undefined,
      ogDescription |-> Undefined,
      ogImage       |-> Undefined,
      ogUrl         |-> Undefined,
      ogType        |-> Str("website") ]

\* OpenGraphMetaWriter.writeTags()
OpenGraphWriteTags(this) ==
    LET t1 == PushIf(<<>>, this.ogTitle, MetaProperty("og:title", this.ogTitle))
        t2 == PushIf(t1, this.ogDescription,
                     MetaProperty("og:description", this.ogDescription))
        t3 == PushIf(t2, this.ogImage, MetaProperty("og:image", this.ogImage))
        t4 == PushIf(t3, this.ogUrl, MetaProperty("og:url", this.ogUrl))
        t5 == PushIf(t4, this.ogType, MetaProperty("og:type", this.ogType))
    IN  Join(t5, Separator(this.useNewLineBetweenEntries))

\* new TwitterMetaWriter()
NewTwitterMetaWriter(cfg) ==
    [ useNewLineBetweenEntries |-> cfg.useNewLineBetweenEntries,
      twitterTitle       |-> Undefined,
      twitterDescription |-> Undefined,
      twitterImage       |-> Undefined,
      twitterCard        |-> Str("summary_large_image") ]

\* TwitterMetaWriter.writeTags()
TwitterWriteTags(this) ==
    LET t1 == PushIf(<<>>, this.twitterCard, MetaName("twitter:card", this.twitterCard))
        t2 == PushIf(t1, this.twitterTitle, MetaName("twitter:title", this.twitterTitle))
        t3 == PushIf(t2, this.twitterDescription,
                     MetaName("twitter:description", this.twitterDescription))
        t4 == PushIf(t3, this.twitterImage, MetaName("twitter:image", this.twitterImage))
    IN  Join(t4, Separator(this.useNewLineBetweenEntries))

\* new PageMetaWriter()
NewPageMetaWriter(cfg) ==
    [ useNewLineBetweenEntries |-> cfg.useNewLineBetweenEntries,
      charset    |-> Str("UTF-8"),
      viewport   |-> Str("width=device-width, initial-scale=1.0"),
      themeColor |-> Undefined ]

\* PageMetaWriter.writeTags()
PageWriteTags(this) ==
    LET t1 == PushIf(<<>>, this.charset, CharsetTag(this.charset))
        t2 == PushIf(t1, this.viewport, MetaName("viewport", this.viewport))
        t3 == PushIf(t2, this.themeColor, MetaName("theme-color", this.themeColor))
    IN  Join(t3, Separator(this.useNewLineBetweenEntries))

\* new CommonMetaWriter(): the aggregator and its four writers read
\* GlobalConfig.useNewLineBetweenEntries in the same constructor call.
NewCommonMetaWriter(cfg) ==
    [ useNewLineBetweenEntries |-> cfg.useNewLineBetweenEntries,
      page    |-> NewPageMetaWriter(cfg),
      seo     |-> NewSEOMetaWriter(cfg),
      og      |-> NewOpenGraphMetaWriter(cfg),
      twitter |-> NewTwitterMetaWriter(cfg) ]

\* Mutant of CommonGenerateMetaTags: the blocks joined by the empty string,
\* as write() of CommonMetaTags does when called without argument.
CommonGenerateMetaTags_NoNewline(this) ==
    Join(<< PageWriteTags(this.page),
            SEOWriteTags(this.seo),
            OpenGraphWriteTags(this.og),
            TwitterWriteTags(this.twitter) >>,
         Separator(FALSE))

\* CommonMetaWriter.generateMetaTags()
CommonGenerateMetaTags(this) ==
    Join(<< PageWriteTags(this.page),
            SEOWriteTags(this.seo),
            OpenGraphWriteTags(this.og),
            TwitterWriteTags(this.twitter) >>,
         Separator(this.useNewLineBetweenEntries))

\* Module load followed by `new CommonMetaWriter()`.
InitWriter ==
    /\ Config = [useNewLineBetweenEntries |-> TRUE]
    /\ meta = NewCommonMetaWriter(Config)
    /\ nCalls = 0
    /\ reversedSet = FALSE
    /\ atConstruction = Config.useNewLineBetweenEntries
    /\ out = NoOut

\* GlobalConfig.useNewLineBetweenEntries = b
SetGlobalConfig(b) ==
    /\ nCalls < MaxFanOutCalls
    /\ Config' = [Config EXCEPT !.useNewLineBetweenEntries = b]
    /\ nCalls' = nCalls + 1
    /\ reversedSet' = FALSE
    /\ out' = NoOut
    /\ UNCHANGED <<meta, atConstruction>>

\* meta = new CommonMetaWriter()
ConstructWriter ==
    /\ meta' = NewCommonMetaWriter(Config)
    /\ nCalls' = 0
    /\ reversedSet' = FALSE
    /\ atConstruction' = Config.useNewLineBetweenEntries
    /\ out' = NoOut
    /\ UNCHANGED Config

\* meta.setTitleForAll(s)
WriterSetTitleForAll(s) ==
    /\ nCalls < MaxFanOutCalls
    /\ meta' = [meta EXCEPT !.seo.title = Str(s), !.og.ogTitle = Str(s),
                            !.twitter.twitterTitle = Str(s)]
    /\ nCalls' = nCalls + 1
    /\ reversedSet' = FALSE
    /\ out' = NoOut
    /\ UNCHANGED <<Config, atConstruction>>

\* meta.setDescriptionForAll(s)
WriterSetDescriptionForAll(s) ==
    /\ nCalls < MaxFanOutCalls
    /\ meta' = [meta EXCEPT !.seo.description = Str(s),
                            !.og.ogDescription = Str(s),
                            !.twitter.twitterDescription = Str(s)]
    /\ nCalls' = nCalls + 1
    /\ reversedSet' = FALSE
    /\ out' = NoOut
    /\ UNCHANGED <<Config, atConstruction>>

\* meta.setPreviewImageForAll(s)
WriterSetPreviewImageForAll(s) ==
    /\ nCalls < MaxFanOutCalls
    /\ meta' = [meta EXCEPT !.og.ogImage = Str(s), !.twitter.twitterImage = Str(s)]
    /\ nCalls' = nCalls + 1
    /\ reversedSet' = FALSE
    /\ out' = NoOut
    /\ UNCHANGED <<Config, atConstruction>>

\* meta.generateMetaTags()
GenerateMetaTags ==
    /\ out' = [call |-> "generate", arg |-> "none",
               ret |-> CommonGenerateMetaTags(meta)]
    /\ UNCHANGED <<Config, meta, nCalls, reversedSet, atConstruction>>

NextWriter ==
    \/ \E b \in BOOLEAN : SetGlobalConfig(b)
    \/ ConstructWriter
    \/ \E s \in FanOutStrings : WriterSetTitleForAll(s)
    \/ \E s \in FanOutStrings : WriterSetDescriptionForAll(s)
    \/ \E s \in FanOutStrings : WriterSetPreviewImageForAll(s)
    \/ GenerateMetaTags

SpecWriter == InitWriter /\ [][NextWriter]_vars

----------------------------------------------------------------------------
(* Vocabulary of the properties *)

IsLine(p) == p # NL

IsNewline(p) == p = NL

\* The tag lines of a returned string, in order, and its newline count.
Lines(ret) == SelectSeq(ret, IsLine)

Newlines(ret) == Len(SelectSeq(ret, IsNewline))

Contains(ret, line) == \E i \in 1..Len(ret) : ret[i] = line

Pieces(ret) == {ret[i] : i \in 1..Len(ret)}

\* The line the documentation gives field f of writer c when it holds v.
TagLine(c, f, v) ==
    CASE c = "page" /\ f = "charset"       -> CharsetTag(v)
      [] c = "page" /\ f = "viewport"      -> MetaName("viewport", v)
      [] c = "page" /\ f = "themeColor"    -> MetaName("theme-color", v)
      [] c = "seo" /\ f = "title"          -> TitleTag(v)
      [] c = "seo" /\ f = "description"    -> MetaName("description", v)
      [] c = "seo" /\ f = "keywords"       -> MetaName("keywords", v)
      [] c = "seo" /\ f = "robots"         -> MetaName("robots", v)
      [] c = "seo" /\ f = "googlebot"      -> MetaName("googlebot", v)
      [] c = "seo" /\ f = "bingbot"        -> MetaName("bingbot", v)
      [] c = "seo" /\ f = "canonical"      -> CanonicalTag(v)
      [] c = "og" /\ f = "title"           -> MetaProperty("og:title", v)
      [] c = "og" /\ f = "description"     -> MetaProperty("og:description", v)
      [] c = "og" /\ f = "image"           -> MetaProperty("og:image", v)
      [] c = "og" /\ f = "url"             -> MetaProperty("og:url", v)
      [] c = "og" /\ f = "type"            -> MetaProperty("og:type", v)
      [] c = "og" /\ f = "siteName"        -> MetaProperty("og:site_name", v)
      [] c = "twitter" /\ f = "card"        -> MetaName("twitter:card", v)
      [] c = "twitter" /\ f = "title"       -> MetaName("twitter:title", v)
      [] c = "twitter" /\ f = "description" -> MetaName("twitter:description", v)
      [] c = "twitter" /\ f = "image"       -> MetaName("twitter:image", v)
      [] c = "twitter" /\ f = "creator"     -> MetaName("twitter:creator", v)
      [] c = "twitter" /\ f = "site"        -> MetaName("twitter:site", v)

\* Every string a field of the model can hold: what callers assign and the
\* constructors' defaults.
KnownStrings ==
    Strings \cup {"UTF-8", "width=device-width, initial-scale=1.0",
                  "website", "summary_large_image"}

\* Every line that can stand for field f of writer c.
AllLines ==
    [c \in Components |->
        [f \in Fields(c) |-> {TagLine(c, f, Str(s)) : s \in KnownStrings}]]

LinesOfField(c, f) == AllLines[c][f]

\* The last call was write() of one of the four writers.
Wrote(c) == out.call = c

WroteWriter == out.call \in Components

----------------------------------------------------------------------------
(* C1 *)

\* C1 as stated (refuted): write() of an already constructed writer separates
\* its lines by the CURRENT value of Config.useNewLineBetweenEntries: whenever
\* a writer returned two or more lines, they are newline-separated exactly if
\* the global flag is true now.
C1_LiveRead ==
    (WroteWriter /\ Len(Lines(out.ret)) >= 2)
        => (Contains(out.ret, NL) <=> Config.useNewLineBetweenEntries)

\* C1 amended: the newline policy is snapshotted at construction.  write() of
\* a writer separates its lines by the value Config.useNewLineBetweenEntries
\* had when the writer was constructed; a later change of the global flag
\* does not reach an already constructed writer.
C1_SnapshotAtConstruction ==
    (WroteWriter /\ Len(Lines(out.ret)) >= 2)
        => /\ Contains(out.ret, NL) <=> atConstruction
           /\ meta[out.call].useNewLineBetweenEntries = atConstruction

\* C1 witness: a writer returned two or more lines after the global flag was
\* changed away from its value at construction.
C1_Witness ==
    /\ WroteWriter
    /\ Len(Lines(out.ret)) >= 2
    /\ Config.useNewLineBetweenEntries # atConstruction

----------------------------------------------------------------------------
(* C2 *)

\* C2 as stated (refuted): a field set to the empty string is present, so
\* write() emits its tag line with an empty value.
C2_EmptyStringEmits ==
    WroteWriter =>
        \A f \in Fields(out.call) :
            meta[out.call][f] = Str("")
                => Contains(out.ret, TagLine(out.call, f, Str("")))

\* C2 amended: a field set to the empty string is omitted exactly like an
\* absent one; write() emits the line of a field if and only if the field
\* holds a non-empty string.
C2_EmptyStringOmitted ==
    WroteWriter =>
        \A f \in Fields(out.call) :
            /\ meta[out.call][f] = Str("")
                   => Pieces(out.ret) \cap LinesOfField(out.call, f) = {}
            /\ Contains(out.ret, TagLine(out.call, f, Str("X")))
                   <=> meta[out.call][f] = Str("X")

\* C2 witness: the SEO writer was serialized while its title held the empty
\* string and its description a non-empty one.
C2_Witness ==
    /\ Wrote("seo")
    /\ meta.seo.title = Str("")
    /\ meta.seo.description = Str("X")

----------------------------------------------------------------------------
(* C3 *)

\* The lines of the fields of writer c that satisfy Test, as a set.
LinesWhere(c, Test(_)) ==
    {TagLine(c, f, meta[c][f]) : f \in {g \in Fields(c) : Test(meta[c][g])}}

IsPresent(v) == v # Undefined

\* C3 as stated (refuted): the emitted lines are exactly the lines of the
\* present fields, present meaning not absent (the empty string included).
C3_ExactlyPresentFields ==
    WroteWriter => Pieces(Lines(out.ret)) = LinesWhere(out.call, IsPresent)

\* C3 amended: an absent field contributes no line, and the emitted lines are
\* exactly the lines of the fields that hold a non-empty string, one line per
\* such field.
C3_AbsenceOmission ==
    WroteWriter =>
        /\ \A f \in Fields(out.call) :
               meta[out.call][f] = Undefined
                   => Pieces(out.ret) \cap LinesOfField(out.call, f) = {}
        /\ Pieces(Lines(out.ret)) = LinesWhere(out.call, Truthy)
        /\ Len(Lines(out.ret)) = Cardinality(LinesWhere(out.call, Truthy))

\* C3 witness: the Open Graph writer was serialized after its type, present by
\* default, was set back to absent, with another field set.
C3_Witness ==
    /\ Wrote("og")
    /\ meta.og.type = Undefined
    /\ Len(Lines(out.ret)) >= 1

----------------------------------------------------------------------------
(* C4 *)

\* The fixed order of each component as the documentation lists it.
C4_Order(c) ==
    CASE c = "page"    -> <<"charset", "viewport", "themeColor">>
      [] c = "seo"     -> <<"title", "description", "keywords", "robots",
                            "googlebot", "bingbot", "canonical">>
      [] c = "og"      -> <<"title", "description", "image", "url", "type">>
      [] c = "twitter" -> <<"card", "title", "description", "image">>

\* Whether a line stands for one of the listed fields, and for which.
C4_Listed(c, line) ==
    \E k \in 1..Len(C4_Order(c)) : line \in LinesOfField(c, C4_Order(c)[k])

C4_Position(c, line) ==
    CHOOSE k \in 1..Len(C4_Order(c)) : line \in LinesOfField(c, C4_Order(c)[k])

\* C4: whatever the order in which the caller set the fields, the lines a
\* writer emits follow the fixed order of its component: of two emitted lines
\* of listed fields, the one emitted first belongs to the field listed first.
C4_OrderStability ==
    WroteWriter =>
        LET c  == out.call
            ls == Lines(out.ret)
        IN  \A i, j \in 1..Len(ls) :
                (i < j /\ C4_Listed(c, ls[i]) /\ C4_Listed(c, ls[j]))
                    => C4_Position(c, ls[i]) < C4_Position(c, ls[j])

\* C4 witness: the SEO writer (no defaults) returned two or more lines after
\* the caller set a field that is emitted earlier later than one emitted later.
C4_Witness ==
    /\ Wrote("seo")
    /\ reversedSet
    /\ Len(Lines(out.ret)) >= 2

----------------------------------------------------------------------------
(* C5 *)

\* The post-state of a fan-out setter for field f holds value v in the SEO,
\* Open Graph and Twitter writers and leaves the Page writer as it was.
C5_FannedOut(f, v) ==
    /\ meta'.seo[f] = v
    /\ meta'.og[f] = v
    /\ meta'.twitter[f] = v
    /\ meta'.page = meta.page
    /\ PageWrite(meta'.page) = PageWrite(meta.page)

\* Serializing each of the three writers in the post-state shows the line of
\* field f with value v.
C5_ShowsLine(f, v) ==
    /\ Contains(SeoWrite(meta'.seo), TagLine("seo", f, v))
    /\ Contains(OgWrite(meta'.og), TagLine("og", f, v))
    /\ Contains(TwitterWrite(meta'.twitter), TagLine("twitter", f, v))

\* Serializing each of the three writers in the post-state shows no line at
\* all for field f.
C5_ShowsNoLine(f) ==
    /\ Pieces(SeoWrite(meta'.seo)) \cap LinesOfField("seo", f) = {}
    /\ Pieces(OgWrite(meta'.og)) \cap LinesOfField("og", f) = {}
    /\ Pieces(TwitterWrite(meta'.twitter)) \cap LinesOfField("twitter", f) = {}

\* C5 as stated (refuted): after setTitleForAll(X) the three titles equal X,
\* each of the three outputs contains the title line with exactly X, and the
\* Page writer is unaffected; likewise setDescriptionForAll.
C5_FanOutAnyString ==
    [][ \A s \in Strings :
           /\ SetTitleForAll(s)
                 => C5_FannedOut("title", Str(s)) /\ C5_ShowsLine("title", Str(s))
           /\ SetDescriptionForAll(s)
                 => C5_FannedOut("description", Str(s))
                    /\ C5_ShowsLine("description", Str(s)) ]_vars

\* C5 amended: after setTitleForAll(X) the three titles equal X and the Page
\* writer is unaffected; for a non-empty X each of the three outputs contains
\* the title line with exactly X, and for the empty string none of them
\* contains a title line.  Likewise setDescriptionForAll.
C5_FanOutNonEmpty ==
    [][ \A s \in Strings :
           /\ SetTitleForAll(s)
                 => /\ C5_FannedOut("title", Str(s))
                    /\ IF s # "" THEN C5_ShowsLine("title", Str(s))
                                 ELSE C5_ShowsNoLine("title")
           /\ SetDescriptionForAll(s)
                 => /\ C5_FannedOut("description", Str(s))
                    /\ IF s # "" THEN C5_ShowsLine("description", Str(s))
                                 ELSE C5_ShowsNoLine("description") ]_vars

\* C5 witness: the single mutating call since construction left the same
\* title in the three writers (only setTitleForAll does that), and the
\* Twitter writer, serialized next, shows it.
C5_Witness ==
    /\ nCalls = 1
    /\ meta.seo.title = Str("X")
    /\ meta.og.title = Str("X")
    /\ meta.twitter.title = Str("X")
    /\ Wrote("twitter")
    /\ Contains(out.ret, TagLine("twitter", "title", Str("X")))

----------------------------------------------------------------------------
(* C6 *)

\* C6: setImageForAll(value) sets OpenGraph.image and Twitter.image to value
\* and changes nothing else: every other field of the four writers, their
\* newline flags and the global flag keep their values.
C6_ImageFrame ==
    [][ \A s \in Strings :
           SetImageForAll(s) =>
               /\ meta'.og.image = Str(s)
               /\ meta'.twitter.image = Str(s)
               /\ \A c \in Components :
                      /\ meta'[c].useNewLineBetweenEntries
                            = meta[c].useNewLineBetweenEntries
                      /\ \A f \in Fields(c) :
                             (f # "image" \/ c \notin {"og", "twitter"})
                                 => meta'[c][f] = meta[c][f]
               /\ meta'.useNewLineBetweenEntries = meta.useNewLineBetweenEntries
               /\ Config' = Config ]_vars

\* C6 witness: two mutating calls since construction left an SEO title and
\* the same image in the Open Graph and Twitter writers (one of the calls was
\* setImageForAll, made on a state with other fields to preserve or to come).
C6_Witness ==
    /\ nCalls = 2
    /\ meta.seo.title = Str("X")
    /\ meta.og.title = Undefined
    /\ meta.og.image = Str("X")
    /\ meta.twitter.image = Str("X")

----------------------------------------------------------------------------
(* C7 *)

\* C7: write(options) of the aggregator returns the page block, the seo
\* block, the og block and the twitter block in this order, with one newline
\* between consecutive blocks for {newLine: true} and nothing between them
\* for {newLine: false} or no argument.
C7_JoinPolicy ==
    Wrote("all") =>
        LET sep == IF out.arg = "true" THEN <<NL>> ELSE <<>>
        IN  out.ret = PageWrite(meta.page) \o sep \o SeoWrite(meta.seo) \o sep
                        \o OgWrite(meta.og) \o sep \o TwitterWrite(meta.twitter)

\* C7 witness: the aggregator was serialized with no argument while all four
\* blocks were non-empty.
C7_Witness ==
    /\ Wrote("all")
    /\ out.arg = "omitted"
    /\ SeoWrite(meta.seo) # <<>>
    /\ PageWrite(meta.page) # <<>>
    /\ OgWrite(meta.og) # <<>>
    /\ TwitterWrite(meta.twitter) # <<>>

----------------------------------------------------------------------------
(* C8 *)

\* Number of fields of writer c that hold a non-empty string.
C8_Emitting(c) == Cardinality({f \in Fields(c) : Truthy(meta[c][f])})

\* C8: when a writer with at least two emitting fields is serialized, then
\* with its newline policy true the lines alternate with single newlines
\* (line, newline, line, ..., line: none before the first or after the last
\* line), and with the policy false the lines follow each other with nothing
\* between them.  The policy is the writer's useNewLineBetweenEntries.
C8_NewlinePolicy ==
    (WroteWriter /\ C8_Emitting(out.call) >= 2) =>
        LET n == C8_Emitting(out.call)
        IN  IF meta[out.call].useNewLineBetweenEntries
              THEN /\ Len(out.ret) = 2 * n - 1
                   /\ \A i \in 1..Len(out.ret) :
                          (out.ret[i] = NL) <=> (i % 2 = 0)
              ELSE /\ Len(out.ret) = n
                   /\ Newlines(out.ret) = 0

\* C8 witness: the Twitter writer returned three lines with its policy true.
C8_Witness ==
    /\ Wrote("twitter")
    /\ meta.twitter.useNewLineBetweenEntries
    /\ C8_Emitting("twitter") = 3
    /\ Len(out.ret) = 5

----------------------------------------------------------------------------
(* C9 *)

\* C9: a step that returns from write(), of a writer or of the aggregator,
\* leaves every field and newline flag of every writer, the aggregator's
\* flag and the global flag unchanged.
C9_WriteFrame ==
    [][ out'.call # "none" => (meta' = meta /\ Config' = Config) ]_vars

\* C9 witness: the aggregator was serialized after two mutating calls.
C9_Witness ==
    /\ Wrote("all")
    /\ nCalls = 2
    /\ meta.og.type = Undefined

----------------------------------------------------------------------------
(* C11 *)

\* C11: defaults at construction.  write() of the Page writer of an instance
\* no call has touched since its constructor ran returns exactly the charset
\* line with UTF-8 followed by the viewport line with
\* "width=device-width, initial-scale=1.0" (separated as the policy taken at
\* construction says) and no theme-color line; write() of its Open Graph
\* writer returns exactly one line, the og:type tag with value "website".
C11_Defaults ==
    /\ (nCalls = 0 /\ Wrote("page")) =>
           out.ret = <<"<meta charset=\"UTF-8\">">>
                     \o (IF atConstruction THEN <<NL>> ELSE <<>>)
                     \o <<"<meta name=\"viewport\" content=\"width=device-width, initial-scale=1.0\">">>
    /\ (nCalls = 0 /\ Wrote("og")) =>
           out.ret = <<"<meta property=\"og:type\" content=\"website\">">>

\* C11 witness: the Open Graph writer of a fresh instance, constructed while
\* the global flag was false, was serialized.
C11_Witness ==
    /\ nCalls = 0
    /\ Wrote("og")
    /\ ~atConstruction
    /\ Len(out.ret) = 1

----------------------------------------------------------------------------
(* C12 *)

\* The string the end-to-end scenario describes for title T, description D
\* and image I: page block (charset, viewport), SEO block (title,
\* description), Open Graph block (title, description, image, type), Twitter
\* block (card, title, description, image); `inner` stands between the lines
\* of one block and a newline between consecutive blocks.
C12_Expected(T, D, I, inner) ==
    <<"<meta charset=\"UTF-8\">">> \o inner
    \o <<"<meta name=\"viewport\" content=\"width=device-width, initial-scale=1.0\">">>
    \o <<NL>>
    \o <<"<title>" \o T \o "</title>">> \o inner
    \o <<"<meta name=\"description\" content=\"" \o D \o "\">">>
    \o <<NL>>
    \o <<"<meta property=\"og:title\" content=\"" \o T \o "\">">> \o inner
    \o <<"<meta property=\"og:description\" content=\"" \o D \o "\">">> \o inner
    \o <<"<meta property=\"og:image\" content=\"" \o I \o "\">">> \o inner
    \o <<"<meta property=\"og:type\" content=\"website\">">>
    \o <<NL>>
    \o <<"<meta name=\"twitter:card\" content=\"summary_large_image\">">> \o inner
    \o <<"<meta name=\"twitter:title\" content=\"" \o T \o "\">">> \o inner
    \o <<"<meta name=\"twitter:description\" content=\"" \o D \o "\">">> \o inner
    \o <<"<meta name=\"twitter:image\" content=\"" \o I \o "\">">>

\* C12: end-to-end scenario.  On an aggregator that, since its construction,
\* received only fan-out setter calls, the last of each kind with a non-empty
\* title, description and image, write({newLine: true}) returns the page
\* block, the SEO block, the Open Graph block and the Twitter block in this
\* order, each with its lines in the documented order, and a newline between
\* consecutive blocks.
C12_Scenario ==
    (/\ Wrote("all") /\ out.arg = "true"
     /\ Truthy(meta.seo.title)
     /\ Truthy(meta.seo.description)
     /\ Truthy(meta.og.image))
        => out.ret = C12_Expected(meta.seo.title[1], meta.seo.description[1],
                                  meta.og.image[1],
                                  IF atConstruction THEN <<NL>> ELSE <<>>)

\* C12 witness: setTitleForAll("X"), setDescriptionForAll("Y") and
\* setImageForAll("X") were each called once on a fresh aggregator and
\* write({newLine: true}) returned twelve lines.
C12_Witness ==
    /\ Wrote("all") /\ out.arg = "true"
    /\ nCalls = 3
    /\ meta.seo.title = Str("X")
    /\ meta.seo.description = Str("Y")
    /\ meta.og.image = Str("X")
    /\ Len(Lines(out.ret)) = 12

----------------------------------------------------------------------------
(* C13 *)

\* C13 as stated (refuted by the code): the README's basic example.  On a
\* freshly constructed aggregator, after one call of each fan-out setter with
\* a non-empty title T, description D and image I, write({newLine: true})
\* outputs exactly eight lines and no others, in this order: <title>, meta
\* description, og:title, og:description, og:image, twitter:title,
\* twitter:description, twitter:image.
C13_ReadmeOutput ==
    (/\ Wrote("all") /\ out.arg = "true"
     /\ nCalls = 3
     /\ Truthy(meta.seo.title)
     /\ Truthy(meta.seo.description)
     /\ Truthy(meta.og.image))
        => LET T == meta.seo.title[1]
               D == meta.seo.description[1]
               I == meta.og.image[1]
           IN  Lines(out.ret) =
                 << "<title>" \o T \o "</title>",
                    "<meta name=\"description\" content=\"" \o D \o "\">",
                    "<meta property=\"og:title\" content=\"" \o T \o "\">",
                    "<meta property=\"og:description\" content=\"" \o D \o "\">",
                    "<meta property=\"og:image\" content=\"" \o I \o "\">",
                    "<meta name=\"twitter:title\" content=\"" \o T \o "\">",
                    "<meta name=\"twitter:description\" content=\"" \o D \o "\">",
                    "<meta name=\"twitter:image\" content=\"" \o I \o "\">" >>

----------------------------------------------------------------------------
(* C14 *)

\* The order in which write(options) places the four blocks.
C14_BlockOrder == <<"page", "seo", "og", "twitter">>

\* Number of pieces of the block of writer c: its lines, and one newline
\* between consecutive lines when the writer's newline policy is true.
C14_BlockLen(c) ==
    LET n == Cardinality({f \in Fields(c) : Truthy(meta[c][f])})
    IN  IF n = 0 THEN 0
        ELSE IF meta[c].useNewLineBetweenEntries THEN 2 * n - 1 ELSE n

\* Number of pieces between two consecutive blocks for a write argument.
C14_Gap(arg) == IF arg = "true" THEN 1 ELSE 0

\* Number of pieces before the k-th block.
RECURSIVE C14_Start(_, _)
C14_Start(k, arg) ==
    IF k = 1 THEN 0
    ELSE C14_Start(k - 1, arg) + C14_BlockLen(C14_BlockOrder[k - 1]) + C14_Gap(arg)

\* C14: the option newLine of write(options) controls only the separator
\* between the four blocks.  In the returned string, inside each block the
\* lines are separated by the writer's newline policy alone (a newline
\* between consecutive lines when it is true, nothing when it is false),
\* whether newLine is true, false or omitted; and between consecutive blocks
\* stands one newline when newLine is true and nothing otherwise, whether the
\* newline policy is true or false.
C14_Separators ==
    Wrote("all") =>
        /\ Len(out.ret) = C14_Start(4, out.arg) + C14_BlockLen("twitter")
        /\ \A k \in 1..4 :
               \A i \in 1..C14_BlockLen(C14_BlockOrder[k]) :
                   (out.ret[C14_Start(k, out.arg) + i] = NL)
                       <=> (meta[C14_BlockOrder[k]].useNewLineBetweenEntries
                                /\ i % 2 = 0)
        /\ \A k \in 2..4 :
               out.arg = "true" => out.ret[C14_Start(k, out.arg)] = NL

\* C14 witness: write({newLine: true}) on an aggregator whose newline policy
\* is false: the only newlines are the three between the blocks, although
\* the page block has two lines.
C14_Witness ==
    /\ Wrote("all") /\ out.arg = "true"
    /\ ~meta.page.useNewLineBetweenEntries
    /\ C14_BlockLen("page") = 2
    /\ Newlines(out.ret) = 3

----------------------------------------------------------------------------
(* C15 *)

\* A returned value is a string: a finite sequence of string pieces.
C15_IsString(ret) ==
    /\ DOMAIN ret = 1..Len(ret)
    /\ \A i \in 1..Len(ret) : ret[i] \in STRING

\* Every field of all four writers is absent.
C15_AllAbsent ==
    \A c \in Components : \A f \in Fields(c) : meta[c][f] = Undefined

\* C15: totality.  In every state (each field absent or a string) write()
\* of each writer and write(options) of the aggregator can return, and what
\* a call returned is a string; when every field of all four writers is
\* absent, write(options) returns the empty string with newLine false or
\* omitted and exactly the three block separators with newLine true.
C15_Totality ==
    /\ ENABLED WritePage /\ ENABLED WriteSeo
    /\ ENABLED WriteOg /\ ENABLED WriteTwitter
    /\ \A arg \in WriteArgs : ENABLED WriteAll(arg)
    /\ out.call # "none" => C15_IsString(out.ret)
    /\ (Wrote("all") /\ C15_AllAbsent) =>
           out.ret = IF out.arg = "true" THEN <<NL, NL, NL>> ELSE <<>>

\* C15 witness: write({newLine: true}) was called after the four defaults
\* were cleared, so that every field is absent.
C15_Witness ==
    /\ Wrote("all") /\ out.arg = "true"
    /\ C15_AllAbsent
    /\ nCalls = 4

----------------------------------------------------------------------------
(* C16 *)

\* C16: defaults persist under fan-out.  In every state reached from a
\* freshly constructed aggregator by setTitleForAll, setDescriptionForAll,
\* setImageForAll and write(options) calls only, Page.charset is "UTF-8",
\* Page.viewport is "width=device-width, initial-scale=1.0", OpenGraph.type
\* is "website" and Twitter.card is "summary_large_image", and every string
\* write(options) returned contains the charset, viewport, og:type and
\* twitter:card lines of these values.
C16_DefaultsPersist ==
    /\ meta.page.charset = Str("UTF-8")
    /\ meta.page.viewport = Str("width=device-width, initial-scale=1.0")
    /\ meta.og.type = Str("website")
    /\ meta.twitter.card = Str("summary_large_image")
    /\ Wrote("all") =>
           /\ Contains(out.ret, "<meta charset=\"UTF-8\">")
           /\ Contains(out.ret,
                  "<meta name=\"viewport\" content=\"width=device-width, initial-scale=1.0\">")
           /\ Contains(out.ret, "<meta property=\"og:type\" content=\"website\">")
           /\ Contains(out.ret,
                  "<meta name=\"twitter:card\" content=\"summary_large_image\">")

\* C16 witness: write() without argument after three fan-out setter calls
\* that left a non-empty title, description and image.
C16_Witness ==
    /\ Wrote("all") /\ out.arg = "omitted"
    /\ nCalls = 3
    /\ meta.twitter.title = Str("Y")
    /\ meta.og.description = Str("X")
    /\ meta.twitter.image = Str("Y")

----------------------------------------------------------------------------
(* C17 *)

\* Writer c emits no line.
C17_Empty(c) == \A f \in Fields(c) : ~Truthy(meta[c][f])

\* Newlines writer c itself puts between its lines.
C17_Inner(c) ==
    LET n == Cardinality({f \in Fields(c) : Truthy(meta[c][f])})
    IN  IF meta[c].useNewLineBetweenEntries /\ n >= 1 THEN n - 1 ELSE 0

\* C17: empty blocks are still joined.  write({newLine: true}) always
\* inserts exactly three block separators, whatever the field state: the
\* returned string has three newlines besides those the writers put between
\* their own lines.  When a writer emits no line its empty block is not
\* skipped: an empty page block gives a leading newline, an empty Twitter
\* block a trailing newline, and an empty SEO or Open Graph block two
\* adjacent newlines.
C17_EmptyBlocksJoined ==
    (Wrote("all") /\ out.arg = "true") =>
        /\ Newlines(out.ret) = 3 + C17_Inner("page") + C17_Inner("seo")
                                  + C17_Inner("og") + C17_Inner("twitter")
        /\ C17_Empty("page") => out.ret[1] = NL
        /\ C17_Empty("twitter") => out.ret[Len(out.ret)] = NL
        /\ (C17_Empty("seo") \/ C17_Empty("og")) =>
               \E i \in 1..(Len(out.ret) - 1) :
                   out.ret[i] = NL /\ out.ret[i + 1] = NL

\* C17 witness: write({newLine: true}) on a fresh aggregator, whose SEO
\* writer emits no line while the other three do.
C17_Witness ==
    /\ Wrote("all") /\ out.arg = "true"
    /\ nCalls = 0
    /\ C17_Empty("seo")
    /\ ~C17_Empty("page") /\ ~C17_Empty("og") /\ ~C17_Empty("twitter")

----------------------------------------------------------------------------
(* C18 *)

\* The lines writer c of the metatag-writer variant returned by itself,
\* joined by sep.
C18_Block(c, sep) ==
    LET own == CASE c = "page"    -> PageWriteTags(meta.page)
                 [] c = "seo"     -> SEOWriteTags(meta.seo)
                 [] c = "og"      -> OpenGraphWriteTags(meta.og)
                 [] c = "twitter" -> TwitterWriteTags(meta.twitter)
    IN  Join([i \in 1..Len(Lines(own)) |-> <<Lines(own)[i]>>], sep)

\* C18: in the metatag-writer variant, in every state reached by changing
\* GlobalConfig, constructing, calling the fan-out setters and calling
\* generateMetaTags, the aggregator and its four writers hold the same
\* newline flag (the value of the global flag when the constructor ran), and
\* the separator generateMetaTags puts between the blocks equals the
\* separator each of the four writers puts between its lines.
C18_SameSeparator ==
    /\ \A c \in Components :
           /\ meta[c].useNewLineBetweenEntries = meta.useNewLineBetweenEntries
           /\ meta[c].useNewLineBetweenEntries = atConstruction
    /\ out.call = "generate" =>
           LET sep == IF atConstruction THEN <<NL>> ELSE <<>>
           IN  out.ret = C18_Block("page", sep) \o sep \o C18_Block("seo", sep)
                           \o sep \o C18_Block("og", sep)
                           \o sep \o C18_Block("twitter", sep)

\* C18 witness: generateMetaTags was called on an instance constructed while
\* the global flag was false, after the flag was set back to true and a
\* title was fanned out; the returned string has no newline.
C18_Witness ==
    /\ out.call = "generate"
    /\ ~atConstruction
    /\ Config.useNewLineBetweenEntries
    /\ meta.og.ogTitle = Str("X")
    /\ Len(Lines(out.ret)) = 7
    /\ Newlines(out.ret) = 0

====
